---- MODULE Spec2Model ----
(***************************************************************************)
(* Model of the dog-breeds update pipeline (scripts/update-breeds.js):     *)
(* the wikitext extractor, the Wikidata parser, the redirect resolver,     *)
(* the merge and the orchestrator main().                                  *)
(*                                                                         *)
(* A JavaScript string is a sequence of one-character strings, a Map is    *)
(* the sequence of its <<key, value>> entries in insertion order, and an   *)
(* optional value is a sequence of length 0 (undefined) or 1.              *)
(***************************************************************************)
EXTENDS Integers, Sequences, FiniteSets, TLC

VARIABLES
  call,            \* the pure function under study, "none" in a run of main
  args,            \* its arguments
  ret,             \* <<>> before it returned, <<value>> after
  mainState,       \* main(): "idle", "awaitSources", "awaitRedirects", "fulfilled", "rejected"
  srcState,        \* per source fetch "A"/"B": "idle", "fetch", "json", "done", "failed"
  wikipediaBreeds, \* result of fetchWikipediaBreedList (a Map)
  wikidataBreeds,  \* result of fetchWikidataBreedInfo (a Map)
  resolveState,    \* resolveRedirects(): "idle", "pending", "fulfilled", "rejected"
  titles,          \* argument of resolveRedirects
  batches,         \* the chunks built by resolveRedirects
  batchState,      \* per chunk call: "fetch", "json", "done", "failed"
  batchResult,     \* per chunk call: the Map resolveRedirectBatch returned
  redirectMap,     \* the Map resolveRedirects returned
  resolveError,    \* <<>> or <<the rejection reason of resolveRedirects>>
  outputPath,      \* main's output target
  mainResult,      \* <<>> or <<the array main returned>>
  mainError,       \* <<>> or <<the rejection reason of main>>
  writes,          \* the calls made to writeFunction, in order
  events           \* history of the run: requests issued and settled, in order

pureVars == <<call, args, ret>>
srcVars == <<srcState, wikipediaBreeds, wikidataBreeds>>
resolveVars == <<resolveState, titles, batches, batchState, batchResult, redirectMap,
                 resolveError>>
mainVars == <<mainState, outputPath, mainResult, mainError, writes>>
vars == <<call, args, ret, mainState, srcState, wikipediaBreeds, wikidataBreeds,
          resolveState, titles, batches, batchState, batchResult, redirectMap,
          resolveError, outputPath, mainResult, mainError, writes, events>>

(***************************************************************************)
(* Bounds of the model.                                                    *)
(***************************************************************************)
MaxFrags == 3

(***************************************************************************)
(* JavaScript strings.                                                     *)
(***************************************************************************)
Min(S) == CHOOSE x \in S : \A y \in S : x <= y

\* a loop `for (x of s) acc = Op(acc, x)` over s[lo..hi], evaluated by halves
\* (acc = acc only makes TLC evaluate the accumulator before it goes on)
ForEach(Op(_, _), init, s) ==
  LET RECURSIVE fold(_, _, _)
      fold(acc, lo, hi) ==
        IF acc = acc /\ lo > hi THEN acc
        ELSE IF lo = hi THEN Op(acc, s[lo])
        ELSE fold(fold(acc, lo, (lo + hi) \div 2), (lo + hi) \div 2 + 1, hi)
  IN fold(init, 1, Len(s))

Concat(ss) ==
  LET join(acc, x) == acc \o x
  IN ForEach(join, <<>>, ss)

\* slice(a, b) of a string or an array, 0-based, end exclusive and clamped
slice(s, a, b) == SubSeq(s, a + 1, IF b > Len(s) THEN Len(s) ELSE b)

\* s.startsWith(pat, i), 0-based
startsWithAt(s, pat, i) ==
  /\ i >= 0
  /\ i + Len(pat) <= Len(s)
  /\ SubSeq(s, i + 1, i + Len(pat)) = pat

\* String.prototype.indexOf(pat, from): 0-based position of the first
\* occurrence at or after from, -1 when there is none
indexOfFrom(s, pat, from) ==
  LET hits == {i \in from..(Len(s) - Len(pat)) : startsWithAt(s, pat, i)}
  IN IF hits = {} THEN -1 ELSE Min(hits)

indexOf(s, pat) == indexOfFrom(s, pat, 0)

\* the characters \s matches and trim() removes, among those of the model
IsSpace(c) == c \in {" ", "\n", "\t"}

\* String.prototype.trim()
trim(s) ==
  LET keep == {i \in 1..Len(s) : ~IsSpace(s[i])}
  IN IF keep = {} THEN <<>>
     ELSE SubSeq(s, Min(keep), CHOOSE i \in keep : \A j \in keep : j <= i)

(***************************************************************************)
(* JavaScript Map, entries in insertion order.                             *)
(***************************************************************************)
MapKeys(m) == {m[i][1] : i \in 1..Len(m)}
MapHas(m, k) == \E i \in 1..Len(m) : m[i][1] = k
MapGet(m, k) == m[CHOOSE i \in 1..Len(m) : m[i][1] = k][2]
\* Map.prototype.set: an existing key keeps its position
MapSet(m, k, v) ==
  IF MapHas(m, k)
  THEN [i \in 1..Len(m) |-> IF m[i][1] = k THEN <<k, v>> ELSE m[i]]
  ELSE Append(m, <<k, v>>)
\* [...map.keys()]
MapKeySeq(m) == [i \in 1..Len(m) |-> m[i][1]]

(***************************************************************************)
(* parseBreedListWikitext                                                  *)
(***************************************************************************)
ExtinctMarker == <<"=", "=", " ", "E", "x", "t", "i", "n", "c", "t">>

NoMatch == [matched |-> FALSE, start |-> 0, end |-> 0, g1 |-> <<>>, g2 |-> <<>>]

\* One attempt of /\*\s*\[\[([^\]|]+?)(?:\|([^\]]+?))?]]/ at 0-based position i.
\* g2 is <<>> when the optional group did not take part, <<text>> otherwise.
linkPatternAt(text, i) ==
  IF ~startsWithAt(text, <<"*">>, i) THEN NoMatch
  ELSE
    LET nonSpace == {k \in (i + 1)..(Len(text) - 1) : ~IsSpace(text[k + 1])}
        j == IF nonSpace = {} THEN Len(text) ELSE Min(nonSpace)
        p == j + 2
        stops1 == {k \in p..(Len(text) - 1) : text[k + 1] \in {"]", "|"}}
        q == IF stops1 = {} THEN Len(text) ELSE Min(stops1)
        stops2 == {k \in (q + 1)..(Len(text) - 1) : text[k + 1] = "]"}
        r == IF stops2 = {} THEN Len(text) ELSE Min(stops2)
    IN IF ~startsWithAt(text, <<"[", "[">>, j) \/ q = p \/ q >= Len(text) THEN NoMatch
       ELSE IF startsWithAt(text, <<"]", "]">>, q)
         THEN [matched |-> TRUE, start |-> i, end |-> q + 2,
               g1 |-> slice(text, p, q), g2 |-> <<>>]
       ELSE IF text[q + 1] = "|" /\ r > q + 1 /\ startsWithAt(text, <<"]", "]">>, r)
         THEN [matched |-> TRUE, start |-> i, end |-> r + 2,
               g1 |-> slice(text, p, q), g2 |-> <<slice(text, q + 1, r)>>]
       ELSE NoMatch

\* text.matchAll(linkPattern): the successive non-overlapping matches
RECURSIVE matchAllFrom(_, _)
matchAllFrom(text, pos) ==
  LET star == indexOfFrom(text, <<"*">>, pos)
  IN IF star < 0 THEN <<>>
     ELSE LET m == linkPatternAt(text, star)
          IN IF m.matched THEN <<m>> \o matchAllFrom(text, m.end)
             ELSE matchAllFrom(text, star + 1)

matchAll(text) == matchAllFrom(text, 0)

\* a later link with the same title replaces the entry
addBreedLastWins(breeds, match) ==
  LET articleTitle == trim(match.g1)
      displayName == trim(IF match.g2 # <<>> THEN match.g2[1] ELSE match.g1)
  IN MapSet(breeds, articleTitle, displayName)

\* the display name is not trimmed
addBreedUntrimmed(breeds, match) ==
  LET articleTitle == trim(match.g1)
      displayName == IF match.g2 # <<>> THEN match.g2[1] ELSE match.g1
  IN IF ~MapHas(breeds, articleTitle)
     THEN MapSet(breeds, articleTitle, displayName)
     ELSE breeds

\* the loop body of parseBreedListWikitext, one match
addBreed(breeds, match) ==
  LET articleTitle == trim(match.g1)
      displayName == trim(IF match.g2 # <<>> THEN match.g2[1] ELSE match.g1)
  IN IF ~MapHas(breeds, articleTitle)
     THEN MapSet(breeds, articleTitle, displayName)
     ELSE breeds

\* slice(0, extinctIndex) without the test: slice(0, -1) drops the last character
extantTextOfUnchecked(wikitext) ==
  LET extinctIndex == indexOf(wikitext, ExtinctMarker)
  IN IF extinctIndex < 0 THEN SubSeq(wikitext, 1, Len(wikitext) - 1)
     ELSE slice(wikitext, 0, extinctIndex)

extantTextOf(wikitext) ==
  LET extinctIndex == indexOf(wikitext, ExtinctMarker)
  IN IF extinctIndex > 0 THEN slice(wikitext, 0, extinctIndex) ELSE wikitext

parseBreedListWikitext(wikitext) ==
  ForEach(addBreed, <<>>, matchAll(extantTextOf(wikitext)))

(***************************************************************************)
(* parseWikidataResults                                                    *)
(***************************************************************************)
WikiPrefix == <<"/", "w", "i", "k", "i", "/">>
HttpPrefix == <<"h", "t", "t", "p", ":", "/", "/">>
HttpsPrefix == <<"h", "t", "t", "p", "s", ":", "/", "/">>
Undefined == <<"u", "n", "d", "e", "f", "i", "n", "e", "d">>

\* the printable ASCII characters, code 32 first (code 96 written "<grave>")
Ascii ==
  <<" ", "!", "\"", "#", "$", "%", "&", "'", "(", ")", "*", "+", ",", "-", ".", "/",
    "0", "1", "2", "3", "4", "5", "6", "7", "8", "9", ":", ";", "<", "=", ">", "?",
    "@", "A", "B", "C", "D", "E", "F", "G", "H", "I", "J", "K", "L", "M", "N", "O",
    "P", "Q", "R", "S", "T", "U", "V", "W", "X", "Y", "Z", "[", "\\", "]", "^", "_",
    "<grave>", "a", "b", "c", "d", "e", "f", "g", "h", "i", "j", "k", "l", "m", "n", "o",
    "p", "q", "r", "s", "t", "u", "v", "w", "x", "y", "z", "{", "|", "}", "~">>

HexDigits == <<"0", "1", "2", "3", "4", "5", "6", "7", "8", "9",
               "a", "b", "c", "d", "e", "f", "A", "B", "C", "D", "E", "F">>
IsHex(c) == \E i \in 1..Len(HexDigits) : HexDigits[i] = c
HexValue(c) ==
  LET i == CHOOSE k \in 1..Len(HexDigits) : HexDigits[k] = c
  IN IF i <= 16 THEN i - 1 ELSE i - 7

\* url.split('/wiki/')[1]: <<>> when the separator does not occur (undefined)
splitSecond(url, sep) ==
  LET i1 == indexOf(url, sep)
      rest == slice(url, i1 + Len(sep), Len(url))
      i2 == indexOf(rest, sep)
  IN IF i1 < 0 THEN <<>>
     ELSE IF i2 < 0 THEN <<rest>> ELSE <<slice(rest, 0, i2)>>

\* decodeURIComponent on the printable ASCII escapes: <<decoded>>, or <<>> when
\* it throws URIError (a % that is not followed by two hex digits; an escape
\* outside printable ASCII is outside the model and is counted as a throw)
RECURSIVE decodeURIComponent(_)
decodeURIComponent(s) ==
  IF s = <<>> THEN <<s>>
  ELSE IF s[1] # "%"
    THEN LET tl == decodeURIComponent(Tail(s))
         IN IF tl = <<>> THEN <<>> ELSE << <<s[1]>> \o tl[1] >>
  ELSE IF Len(s) < 3 \/ ~IsHex(s[2]) \/ ~IsHex(s[3]) THEN <<>>
  ELSE LET code == 16 * HexValue(s[2]) + HexValue(s[3])
           tl == decodeURIComponent(SubSeq(s, 4, Len(s)))
       IN IF code < 32 \/ code > 126 \/ tl = <<>> THEN <<>>
          ELSE << <<Ascii[code - 31]>> \o tl[1] >>

\* s.replaceAll(from, to) for single characters
replaceAllChar(s, from, to) == [i \in 1..Len(s) |-> IF s[i] = from THEN to ELSE s[i]]

\* s.replace(pat, by) with a string pattern: the first occurrence only
replaceFirst(s, pat, by) ==
  LET i == indexOf(s, pat)
  IN IF i < 0 THEN s
     ELSE slice(s, 0, i) \o by \o slice(s, i + Len(pat), Len(s))

\* an absent field is turned into the text "undefined"
valueOrUndefined(opt) == IF opt = <<>> THEN Undefined ELSE opt[1]

\* opt?.value || ''
valueOrEmpty(opt) == IF opt = <<>> THEN <<>> ELSE opt[1]

\* <<key>> of a raw record, <<>> when decodeURIComponent throws
articleTitleOf(result) ==
  LET piece == splitSecond(result.article, WikiPrefix)
      decoded == decodeURIComponent(IF piece = <<>> THEN Undefined ELSE piece[1])
  IN IF decoded = <<>> THEN <<>> ELSE <<replaceAllChar(decoded[1], "_", " ")>>

imageURLOf(result) == replaceFirst(valueOrEmpty(result.image), HttpPrefix, HttpsPrefix)

\* [threw |-> TRUE] when a record makes decodeURIComponent throw
parseWikidataResults(bindings) ==
  LET RECURSIVE loop(_, _)
      loop(breeds, n) ==
        IF n > Len(bindings) THEN [threw |-> FALSE, value |-> breeds]
        ELSE LET result == bindings[n]
                 articleTitle == articleTitleOf(result)
             IN IF articleTitle = <<>> THEN [threw |-> TRUE, value |-> <<>>]
                ELSE loop(MapSet(breeds, articleTitle[1],
                                 [name |-> result.breedLabel,
                                  origin |-> valueOrEmpty(result.origins),
                                  imageURL |-> imageURLOf(result)]),
                          n + 1)
  IN loop(<<>>, 1)

(***************************************************************************)
(* findInWikidata, mergeBreedData                                          *)
(***************************************************************************)
\* <<entry>>, or <<>> for undefined
findInWikidata(articleTitle, wdBreeds, redirects) ==
  IF MapHas(wdBreeds, articleTitle) THEN <<MapGet(wdBreeds, articleTitle)>>
  ELSE LET resolved == IF MapHas(redirects, articleTitle)
                       THEN <<MapGet(redirects, articleTitle)>> ELSE <<>>
       IN \* resolved && ...: undefined and the empty string are both falsy
          IF resolved # <<>> /\ resolved[1] # <<>> /\ MapHas(wdBreeds, resolved[1])
          THEN <<MapGet(wdBreeds, resolved[1])>>
          ELSE <<>>

\* String.prototype.localeCompare under the default collation: punctuation, then
\* digits, then letters; letters compare first without case (primary strength),
\* and only when equal so far lower case goes before upper case (tertiary)
CollationPunct ==
  <<"\t", "\n", " ", "_", "-", ",", ";", ":", "!", "?", ".", "'", "\"", "(", ")",
    "[", "]", "{", "}", "@", "*", "/", "\\", "&", "#", "%", "<grave>", "^", "+", "<", "=",
    ">", "|", "~", "$">>
CollationDigits == <<"0", "1", "2", "3", "4", "5", "6", "7", "8", "9">>
CollationLower == <<"a", "b", "c", "d", "e", "f", "g", "h", "i", "j", "k", "l", "m",
                    "n", "o", "p", "q", "r", "s", "t", "u", "v", "w", "x", "y", "z">>
CollationUpper == <<"A", "B", "C", "D", "E", "F", "G", "H", "I", "J", "K", "L", "M",
                    "N", "O", "P", "Q", "R", "S", "T", "U", "V", "W", "X", "Y", "Z">>

PosIn(seq, c) == IF \E i \in 1..Len(seq) : seq[i] = c
                 THEN CHOOSE i \in 1..Len(seq) : seq[i] = c ELSE 0

Primary(c) ==
  IF PosIn(CollationPunct, c) > 0 THEN PosIn(CollationPunct, c)
  ELSE IF PosIn(CollationDigits, c) > 0 THEN 100 + PosIn(CollationDigits, c)
  ELSE IF PosIn(CollationLower, c) > 0 THEN 200 + PosIn(CollationLower, c)
  ELSE 200 + PosIn(CollationUpper, c)

Tertiary(c) == IF PosIn(CollationUpper, c) > 0 THEN 1 ELSE 0

\* -1, 0, 1: lexicographic comparison of two sequences of weights
RECURSIVE lexCompare(_, _)
lexCompare(x, y) ==
  IF x = <<>> /\ y = <<>> THEN 0
  ELSE IF x = <<>> THEN -1
  ELSE IF y = <<>> THEN 1
  ELSE IF x[1] < y[1] THEN -1
  ELSE IF x[1] > y[1] THEN 1
  ELSE lexCompare(Tail(x), Tail(y))

\* comparison by code unit, what a plain < on strings does
codeUnitCompare(a, b) ==
  lexCompare([i \in 1..Len(a) |-> PosIn(Ascii, a[i])], [i \in 1..Len(b) |-> PosIn(Ascii, b[i])])

localeCompare(a, b) ==
  LET p == lexCompare([i \in 1..Len(a) |-> Primary(a[i])], [i \in 1..Len(b) |-> Primary(b[i])])
  IN IF p # 0 THEN p
     ELSE lexCompare([i \in 1..Len(a) |-> Tertiary(a[i])], [i \in 1..Len(b) |-> Tertiary(b[i])])

\* Array.prototype.sort((a, b) => a.name.localeCompare(b.name)): stable
RECURSIVE insertSorted(_, _)
insertSorted(sorted, x) ==
  IF sorted = <<>> THEN <<x>>
  ELSE IF localeCompare(sorted[Len(sorted)].name, x.name) <= 0 THEN Append(sorted, x)
  ELSE Append(insertSorted(SubSeq(sorted, 1, Len(sorted) - 1), x), sorted[Len(sorted)])

\* a sort that compares the names by code unit
RECURSIVE insertByCodeUnit(_, _)
insertByCodeUnit(sorted, x) ==
  IF sorted = <<>> THEN <<x>>
  ELSE IF codeUnitCompare(sorted[Len(sorted)].name, x.name) <= 0 THEN Append(sorted, x)
  ELSE Append(insertByCodeUnit(SubSeq(sorted, 1, Len(sorted) - 1), x), sorted[Len(sorted)])

sortByCodeUnit(records) == ForEach(insertByCodeUnit, <<>>, records)

sortByName(records) == ForEach(insertSorted, <<>>, records)

\* the record mergeBreedData pushes for one entry of wikipediaBreeds
mergedRecord(entry, wdBreeds, redirects) ==
  LET articleTitle == entry[1]
      displayName == entry[2]
      wikidataEntry == findInWikidata(articleTitle, wdBreeds, redirects)
  IN IF wikidataEntry # <<>>
     THEN [name |-> displayName,
           origin |-> wikidataEntry[1].origin,
           imageURL |-> wikidataEntry[1].imageURL]
     ELSE [name |-> displayName, origin |-> <<>>, imageURL |-> <<>>]

\* a merge that leaves out the entries without metadata
mergedMatchedOnly(wpBreeds, wdBreeds, redirects) ==
  LET RECURSIVE loop(_)
      loop(n) ==
        IF n > Len(wpBreeds) THEN <<>>
        ELSE (IF findInWikidata(wpBreeds[n][1], wdBreeds, redirects) # <<>>
              THEN <<mergedRecord(wpBreeds[n], wdBreeds, redirects)>> ELSE <<>>)
             \o loop(n + 1)
  IN loop(1)

\* the array before the sort
mergedUnsorted(wpBreeds, wdBreeds, redirects) ==
  [n \in 1..Len(wpBreeds) |-> mergedRecord(wpBreeds[n], wdBreeds, redirects)]

mergeBreedData(wpBreeds, wdBreeds, redirects) ==
  sortByName(mergedUnsorted(wpBreeds, wdBreeds, redirects))

(***************************************************************************)
(* resolveRedirectBatch, resolveRedirects                                  *)
(***************************************************************************)
batchSize == 50

\* the list of {from, to} pairs as a Map; an absent list (<<>>) gives no entry
pairsToMap(optList) ==
  LET list == IF optList = <<>> THEN <<>> ELSE optList[1]
      set(m, pair) == MapSet(m, pair[1], pair[2])
  IN ForEach(set, <<>>, list)

\* every title is recorded, also one that resolves to itself
resolveRedirectBatchAll(batch, data) ==
  IF ~data.hasQuery THEN [threw |-> TRUE, value |-> <<>>]
  ELSE
    LET normalized == pairsToMap(data.normalized)
        redirects == pairsToMap(data.redirects)
        resolvedOf(title) ==
          LET r1 == IF MapHas(normalized, title) THEN MapGet(normalized, title) ELSE title
          IN IF MapHas(redirects, r1) THEN MapGet(redirects, r1) ELSE r1
        step(result, title) == MapSet(result, title, resolvedOf(title))
    IN [threw |-> FALSE, value |-> ForEach(step, <<>>, batch)]

\* the redirect is looked up for the title, not for its normalized form
resolveRedirectBatchUncomposed(batch, data) ==
  IF ~data.hasQuery THEN [threw |-> TRUE, value |-> <<>>]
  ELSE
    LET normalized == pairsToMap(data.normalized)
        redirects == pairsToMap(data.redirects)
        resolvedOf(title) ==
          IF MapHas(redirects, title) THEN MapGet(redirects, title)
          ELSE IF MapHas(normalized, title) THEN MapGet(normalized, title) ELSE title
        step(result, title) ==
          IF resolvedOf(title) # title THEN MapSet(result, title, resolvedOf(title))
          ELSE result
    IN [threw |-> FALSE, value |-> ForEach(step, <<>>, batch)]

\* the part of resolveRedirectBatch after the response was read; data.query is
\* missing in a malformed response, and reading data.query.normalized throws
resolveRedirectBatch(batch, data) ==
  IF ~data.hasQuery THEN [threw |-> TRUE, value |-> <<>>]
  ELSE
    LET normalized == pairsToMap(data.normalized)
        redirects == pairsToMap(data.redirects)
        resolvedOf(title) ==
          LET r1 == IF MapHas(normalized, title) THEN MapGet(normalized, title) ELSE title
          IN IF MapHas(redirects, r1) THEN MapGet(redirects, r1) ELSE r1
        step(result, title) ==
          IF resolvedOf(title) # title THEN MapSet(result, title, resolvedOf(title))
          ELSE result
    IN [threw |-> FALSE, value |-> ForEach(step, <<>>, batch)]

\* chunks that take one title too many
RECURSIVE batchesFromOverlong(_, _)
batchesFromOverlong(ts, i) ==
  IF i < Len(ts) THEN <<slice(ts, i, i + batchSize + 1)>> \o batchesFromOverlong(ts, i + batchSize + 1)
  ELSE <<>>

\* the loop of resolveRedirects that builds batches, from index i on
RECURSIVE batchesFrom(_, _)
batchesFrom(ts, i) ==
  IF i < Len(ts) THEN <<slice(ts, i, i + batchSize)>> \o batchesFrom(ts, i + batchSize)
  ELSE <<>>

\* the loops of resolveRedirects that merge the batch results
mergeBatchResults(results) ==
  LET set(m, pair) == MapSet(m, pair[1], pair[2])
      inner(m, batchRes) == ForEach(set, m, batchRes)
  IN ForEach(inner, <<>>, results)

(***************************************************************************)
(* JSON.stringify(breeds, null, 2)                                         *)
(***************************************************************************)
jsonEscapeChar(c) ==
  IF c = "\"" THEN <<"\\", "\"">>
  ELSE IF c = "\\" THEN <<"\\", "\\">>
  ELSE IF c = "\n" THEN <<"\\", "n">>
  ELSE IF c = "\t" THEN <<"\\", "t">>
  ELSE <<c>>

jsonString(str) == <<"\"">> \o Concat([i \in 1..Len(str) |-> jsonEscapeChar(str[i])]) \o <<"\"">>

jsonRecord(b) ==
  <<" ", " ", "{", "\n">>
  \o <<" ", " ", " ", " ", "\"", "n", "a", "m", "e", "\"", ":", " ">> \o jsonString(b.name)
  \o <<",", "\n">>
  \o <<" ", " ", " ", " ", "\"", "o", "r", "i", "g", "i", "n", "\"", ":", " ">> \o jsonString(b.origin)
  \o <<",", "\n">>
  \o <<" ", " ", " ", " ", "\"", "i", "m", "a", "g", "e", "U", "R", "L", "\"", ":", " ">>
  \o jsonString(b.imageURL)
  \o <<"\n", " ", " ", "}">>

JSONStringify(breeds) ==
  IF breeds = <<>> THEN <<"[", "]">>
  ELSE <<"[", "\n">>
       \o Concat([i \in 1..Len(breeds) |->
                    jsonRecord(breeds[i]) \o (IF i < Len(breeds) THEN <<",", "\n">> ELSE <<"\n">>)])
       \o <<"]">>

\* one write call per record instead of one for the array
writeCallsPerRecord(path, breeds) ==
  [i \in 1..Len(breeds) |-> [path |-> path, data |-> JSONStringify(<<breeds[i]>>) \o <<"\n">>]]

\* the calls main makes to writeFunction
writeCalls(path, breeds) ==
  << [path |-> path, data |-> JSONStringify(breeds) \o <<"\n">>] >>

(***************************************************************************)
(* Inputs: wikitexts built from a few fragments.                           *)
(***************************************************************************)
WikitextFragments ==
  { ExtinctMarker,
    <<"*", " ", "[", "[", "A", "]", "]", "\n">>,
    <<"*", "[", "[", "b", " ", "|", "B", "]", "]">>,
    <<"*", "[", "[", "A", " ", "|", "c", " ", "]", "]">>,
    <<"*", " ", "[", "[", " ", "]", "]">>,
    <<"*", " ", "[", "[", "a">>,
    <<"]", "]", "\n">> }

RECURSIVE FragSeqs(_)
FragSeqs(n) ==
  IF n = 0 THEN {<<>>}
  ELSE LET shorter == FragSeqs(n - 1)
       IN shorter \cup {Append(fs, f) : fs \in {x \in shorter : Len(x) = n - 1},
                                        f \in WikitextFragments}

WikitextInputs == {Concat(fs) : fs \in FragSeqs(MaxFrags)}

(***************************************************************************)
(* Inputs of parseWikidataResults: raw records over a few article URLs and *)
(* image URLs.                                                             *)
(***************************************************************************)
MaxBindings == 2

ArticleUrls ==
  { <<"e">> \o WikiPrefix \o <<"A", "_", "b">>,
    <<"e">> \o WikiPrefix \o <<"A", "%", "2", "0", "b">>,
    <<"e">>,
    <<"e">> \o WikiPrefix \o <<"%", "z">>,
    <<"e">> \o WikiPrefix \o <<"A">> \o WikiPrefix \o <<"b">> }

ImageValues ==
  { <<>>,
    <<"a">>,
    HttpPrefix \o <<"a">>,
    HttpsPrefix \o <<"a">>,
    HttpPrefix \o <<"a", "/">> \o HttpPrefix \o <<"b">>,
    HttpsPrefix \o <<"a", "/">> \o HttpPrefix \o <<"b">>,
    <<"a">> \o HttpPrefix \o <<"b">> }

\* the optional origins field goes with the article
OriginsOf(article) ==
  IF article = <<"e">> \o WikiPrefix \o <<"A", "_", "b">> THEN << <<"J">> >>
  ELSE IF article = <<"e">> THEN << <<>> >>
  ELSE <<>>

RawRecords ==
  { [article |-> a, breedLabel |-> <<"L">>, origins |-> OriginsOf(a), image |-> img] :
      a \in ArticleUrls, img \in {<<>>} \cup {<<u>> : u \in ImageValues} }

RECURSIVE SeqsUpTo(_, _)
SeqsUpTo(S, n) ==
  IF n = 0 THEN {<<>>}
  ELSE LET shorter == SeqsUpTo(S, n - 1)
       IN shorter \cup {Append(q, x) : q \in {y \in shorter : Len(y) = n - 1}, x \in S}

BindingsInputs == SeqsUpTo(RawRecords, MaxBindings)

(***************************************************************************)
(* Inputs of mergeBreedData: Maps over a few titles (the empty title       *)
(* among them) and display names of mixed case.                            *)
(***************************************************************************)
MaxExtracted == 3

TitlePool == {<<>>, <<"a">>, <<"b">>}
NamePool == {<<"a">>, <<"B">>, <<"b">>}

DistinctKeys(m) == \A i, j \in 1..Len(m) : m[i][1] = m[j][1] => i = j

ExtractedInputs ==
  {m \in SeqsUpTo(TitlePool \X NamePool, MaxExtracted) : DistinctKeys(m)}

\* a metadata entry as parseWikidataResults builds it; its label is no display name
MetaOf(k) == [name |-> <<"M">> \o k, origin |-> <<"O">> \o k, imageURL |-> HttpsPrefix \o k]

MetadataInputs ==
  LET order == <<<<>>, <<"a">>, <<"b">>>>
      RECURSIVE pick(_, _)
      pick(K, n) == IF n > Len(order) THEN <<>>
                    ELSE (IF order[n] \in K THEN << <<order[n], MetaOf(order[n])>> >> ELSE <<>>)
                         \o pick(K, n + 1)
  IN {pick(K, 1) : K \in SUBSET TitlePool}

AliasInputs ==
  {<<>>} \cup {<< <<k, t>> >> : k \in TitlePool, t \in TitlePool}

\* alias maps for findInWikidata: those above and maps with two entries, one
\* leading to the other
FindAliasInputs ==
  AliasInputs \cup
  { << << <<"a">>, <<"b">> >>, << <<"b">>, <<>> >> >>,
    << << <<"a">>, <<>> >>, << <<>>, <<"b">> >> >>,
    << << <<"b">>, <<"a">> >>, << <<"a">>, <<"b">> >> >> }

(***************************************************************************)
(* Inputs of the two parsers followed by the merge: list texts and raw     *)
(* records whose titles meet.                                              *)
(***************************************************************************)
PipelineTexts ==
  { <<"n", "o", " ", "l", "i", "s", "t">>,
    <<"*", " ", "[", "[", "A", " ", "b", "]", "]">>,
    <<"*", " ", "[", "[", "A", " ", "b", "|", "x", "]", "]", "\n", "*", " ", "[", "[", "C", "]", "]">>,
    <<"*", " ", "[", "[", " ", "]", "]", "\n", "*", " ", "[", "[", "A", " ", "b", "]", "]">>,
    <<"*", "[", "[", "C", "|", " ", "]", "]">>,
    <<"*", " ", "[", "[", "C", "]", "]", "*", " ", "[", "[", "u", "n", "d", "e", "f", "i", "n", "e", "d", "]", "]">> }

PipelineRecords ==
  { [article |-> a, breedLabel |-> <<"L">>, origins |-> o, image |-> img] :
      a \in { <<"e">> \o WikiPrefix \o <<"A", "_", "b">>,
               <<"e">> \o WikiPrefix \o <<"C">>,
               <<"e">> },
      o \in { <<>>, << <<"J">> >> },
      img \in { <<>>, << HttpPrefix \o <<"a">> >> } }

PipelineBindings == SeqsUpTo(PipelineRecords, MaxBindings)

PipelineAliases ==
  { <<>>,
    << << <<"C">>, <<"A", " ", "b">> >> >>,
    << << <<>>, <<"A", " ", "b">> >> >> }

(***************************************************************************)
(* Inputs of the network calls: the responses the three endpoints give.    *)
(***************************************************************************)
MaxTitles == 101

Digit(k) == CollationDigits[k + 1]
\* the i-th generated title: T001, T002, ...
TitleNo(i) == <<"T", Digit((i \div 100) % 10), Digit((i \div 10) % 10), Digit(i % 10)>>
GeneratedTitles(n) == [i \in 1..n |-> TitleNo(i)]
LinksText(n) ==
  Concat([i \in 1..n |-> <<"*", " ", "[", "[">> \o TitleNo(i) \o <<"]", "]", "\n">>])

RedirectTarget == <<"X", " ", "y">>

\* data of the parse endpoint; data.parse is missing in a malformed one
SourceAResponses ==
  { [wellFormed |-> FALSE, wikitext |-> <<>>],
    [wellFormed |-> TRUE, wikitext |-> <<"n", "o", " ", "l", "i", "s", "t">>],
    [wellFormed |-> TRUE,
     wikitext |-> <<"*", " ", "[", "[", "b", "|", "B", "]", "]", "\n",
                    "*", " ", "[", "[", "A", "]", "]", "\n">>
                  \o ExtinctMarker \o <<"\n", "*", " ", "[", "[", "Z", "]", "]">>],
    [wellFormed |-> TRUE, wikitext |-> LinksText(batchSize + 1)] }

\* data of the SPARQL endpoint; data.results is missing in a malformed one
SourceBResponses ==
  { [wellFormed |-> FALSE, bindings |-> <<>>],
    [wellFormed |-> TRUE, bindings |-> <<>>],
    [wellFormed |-> TRUE,
     bindings |-> << [article |-> <<"e">> \o WikiPrefix \o <<"A">>,
                      breedLabel |-> <<"L", "a">>,
                      origins |-> << <<"J">> >>,
                      image |-> << HttpPrefix \o <<"a">> >>],
                     [article |-> <<"e">> \o WikiPrefix \o <<"X", "_", "y">>,
                      breedLabel |-> <<"L", "x">>,
                      origins |-> <<>>,
                      image |-> <<>>] >>] }

\* data of the query endpoint for a batch; data.query is missing in a malformed one
RedirectResponses(batch) ==
  { [hasQuery |-> FALSE, normalized |-> <<>>, redirects |-> <<>>],
    [hasQuery |-> TRUE, normalized |-> <<>>, redirects |-> <<>>],
    [hasQuery |-> TRUE, normalized |-> <<>>,
     redirects |-> << << <<batch[1], RedirectTarget>> >> >>],
    [hasQuery |-> TRUE,
     normalized |-> << << <<batch[Len(batch)], <<"N">> >> >> >>,
     redirects |-> << << << <<"N">>, RedirectTarget >> >> >>],
    [hasQuery |-> TRUE,
     normalized |-> << << <<batch[1], <<"N">> >> >> >>,
     redirects |-> << << << <<"N">>, batch[1] >>,
                         << batch[Len(batch)], batch[Len(batch)] >> >> >>] }

(***************************************************************************)
(* Inputs of resolveRedirectBatch: batches over three titles and responses *)
(* whose lists are built from a few {from, to} pairs.                      *)
(***************************************************************************)
MaxPairs == 2

BatchInputs ==
  { <<>>, << <<"a">> >>, << <<"a">>, <<"b">> >>, << <<"b">>, <<"a">>, <<"c">> >>,
    << <<"a">>, <<"a">> >> }

NormalizedPairs == { << <<"a">>, <<"b">> >>, << <<"a">>, <<"c">> >>, << <<"b">>, <<"a">> >> }

RedirectPairs ==
  { << <<"a">>, <<"c">> >>, << <<"b">>, <<"c">> >>, << <<"b">>, <<"a">> >>,
    << <<"c">>, <<"a">> >>, << <<"c">>, <<"c">> >> }

\* an absent list (<<>>) or a list of up to MaxPairs pairs
OptionalLists(pairs) == {<<>>} \cup {<<l>> : l \in SeqsUpTo(pairs, MaxPairs)}

QueryResponses ==
  { [hasQuery |-> FALSE, normalized |-> <<>>, redirects |-> <<>>] }
  \cup { [hasQuery |-> TRUE, normalized |-> n, redirects |-> r] :
           n \in OptionalLists(NormalizedPairs), r \in OptionalLists(RedirectPairs) }

OutputPaths == {<<"o", "u", "t">>, <<"d", "o", "g", "s">>}

(***************************************************************************)
(* Specifications of the pure functions: Init draws the arguments, the     *)
(* action applies the function.                                            *)
(***************************************************************************)
IdleRun ==
  /\ mainState = "idle"
  /\ srcState = [s \in {"A", "B"} |-> "idle"]
  /\ wikipediaBreeds = <<>>
  /\ wikidataBreeds = <<>>
  /\ resolveState = "idle"
  /\ titles = <<>>
  /\ batches = <<>>
  /\ batchState = <<>>
  /\ batchResult = <<>>
  /\ redirectMap = <<>>
  /\ resolveError = <<>>
  /\ outputPath = <<>>
  /\ mainResult = <<>>
  /\ mainError = <<>>
  /\ writes = <<>>
  /\ events = <<>>

InitParse ==
  /\ call = "parseBreedListWikitext"
  /\ args \in {<<w>> : w \in WikitextInputs}
  /\ ret = <<>>
  /\ IdleRun

CallParseBreedListWikitext ==
  /\ call = "parseBreedListWikitext"
  /\ ret = <<>>
  /\ ret' = <<parseBreedListWikitext(args[1])>>
  /\ UNCHANGED <<call, args, srcVars, resolveVars, mainVars, events>>

SpecParse == InitParse /\ [][CallParseBreedListWikitext]_vars

InitWikidata ==
  /\ call = "parseWikidataResults"
  /\ args \in {<<b>> : b \in BindingsInputs}
  /\ ret = <<>>
  /\ IdleRun

CallParseWikidataResults ==
  /\ call = "parseWikidataResults"
  /\ ret = <<>>
  /\ ret' = <<parseWikidataResults(args[1])>>
  /\ UNCHANGED <<call, args, srcVars, resolveVars, mainVars, events>>

SpecWikidata == InitWikidata /\ [][CallParseWikidataResults]_vars

InitMerge ==
  /\ call = "mergeBreedData"
  /\ args \in ExtractedInputs \X MetadataInputs \X AliasInputs
  /\ ret = <<>>
  /\ IdleRun

CallMergeBreedData ==
  /\ call = "mergeBreedData"
  /\ ret = <<>>
  /\ ret' = <<mergeBreedData(args[1], args[2], args[3])>>
  /\ UNCHANGED <<call, args, srcVars, resolveVars, mainVars, events>>

SpecMerge == InitMerge /\ [][CallMergeBreedData]_vars

InitFind ==
  /\ call = "findInWikidata"
  /\ args \in TitlePool \X MetadataInputs \X FindAliasInputs
  /\ ret = <<>>
  /\ IdleRun

CallFindInWikidata ==
  /\ call = "findInWikidata"
  /\ ret = <<>>
  /\ ret' = <<findInWikidata(args[1], args[2], args[3])>>
  /\ UNCHANGED <<call, args, srcVars, resolveVars, mainVars, events>>

SpecFind == InitFind /\ [][CallFindInWikidata]_vars

InitPipeline ==
  /\ call = "parseAndMerge"
  /\ args \in PipelineTexts \X PipelineBindings \X PipelineAliases
  /\ ret = <<>>
  /\ IdleRun

\* what main computes from the two response bodies and the alias map
CallParseAndMerge ==
  /\ call = "parseAndMerge"
  /\ ret = <<>>
  /\ ~parseWikidataResults(args[2]).threw
  /\ ret' = <<mergeBreedData(parseBreedListWikitext(args[1]),
                             parseWikidataResults(args[2]).value, args[3])>>
  /\ UNCHANGED <<call, args, srcVars, resolveVars, mainVars, events>>

SpecPipeline == InitPipeline /\ [][CallParseAndMerge]_vars

InitBatch ==
  /\ call = "resolveRedirectBatch"
  /\ args \in BatchInputs \X QueryResponses
  /\ ret = <<>>
  /\ IdleRun

\* resolveRedirectBatch once its response body is there
CallResolveRedirectBatch ==
  /\ call = "resolveRedirectBatch"
  /\ ret = <<>>
  /\ ret' = <<resolveRedirectBatch(args[1], args[2])>>
  /\ UNCHANGED <<call, args, srcVars, resolveVars, mainVars, events>>

SpecBatch == InitBatch /\ [][CallResolveRedirectBatch]_vars

(***************************************************************************)
(* The run of main() and of resolveRedirects(): one action per step that   *)
(* runs without suspension.  A network call is issued, then its fetch      *)
(* promise settles, then its json() promise settles.                       *)
(***************************************************************************)
Event(ev, kind, idx, what) == [ev |-> ev, kind |-> kind, idx |-> idx, what |-> what]
Reason(kind, idx, what) == [kind |-> kind, idx |-> idx, what |-> what]

\* Promise.all is fulfilled when some promise is
anyDone(states) == \E i \in DOMAIN states : states[i] = "done"

\* Promise.all is fulfilled when every promise is
allDone(states) == \A i \in DOMAIN states : states[i] = "done"

\* a rejection that is swallowed
rejectedStateSwallowed(state, awaiting) == state

\* `await Promise.all(...)`: a rejection rejects the awaiting function, once
rejectedState(state, awaiting) == IF state = awaiting THEN "rejected" ELSE state

\* the last rejection wins
rejectionReasonLast(state, awaiting, current, err) == <<err>>

\* Promise.all rejects with the first rejection; later ones are ignored
rejectionReason(state, awaiting, current, err) ==
  IF state = awaiting THEN <<err>> ELSE current

\* main(): lines 282-285 up to the await; both fetches are issued
MainStart(path) ==
  /\ call = "main"
  /\ mainState = "idle"
  /\ mainState' = "awaitSources"
  /\ outputPath' = path
  /\ srcState' = [s \in {"A", "B"} |-> "fetch"]
  /\ events' = events \o <<Event("issue", "A", 0, "fetch"), Event("issue", "B", 0, "fetch")>>
  /\ UNCHANGED <<pureVars, wikipediaBreeds, wikidataBreeds, resolveVars,
                 mainResult, mainError, writes>>

\* a source branch rejects: the branch fails and main with it if it still waits
SourceReject(s, what) ==
  LET err == Reason(s, 0, what)
  IN /\ srcState' = [srcState EXCEPT ![s] = "failed"]
     /\ mainState' = rejectedState(mainState, "awaitSources")
     /\ mainError' = rejectionReason(mainState, "awaitSources", mainError, err)
     /\ events' = Append(events, Event("fail", s, 0, what))

\* `await fetchFunction(url, ...)` of a source is fulfilled
SourceFetchOk(s) ==
  /\ srcState[s] = "fetch"
  /\ srcState' = [srcState EXCEPT ![s] = "json"]
  /\ UNCHANGED <<pureVars, wikipediaBreeds, wikidataBreeds, resolveVars, mainVars, events>>

\* `await fetchFunction(url, ...)` of a source is rejected
SourceFetchFail(s) ==
  /\ srcState[s] = "fetch"
  /\ SourceReject(s, "fetch")
  /\ UNCHANGED <<pureVars, wikipediaBreeds, wikidataBreeds, resolveVars,
                 outputPath, mainResult, writes>>

\* `await response.json()` of a source is rejected
SourceJsonFail(s) ==
  /\ srcState[s] = "json"
  /\ SourceReject(s, "json")
  /\ UNCHANGED <<pureVars, wikipediaBreeds, wikidataBreeds, resolveVars,
                 outputPath, mainResult, writes>>

\* fetchWikipediaBreedList after `await response.json()`
WikipediaJsonOk(data) ==
  /\ srcState["A"] = "json"
  /\ IF data.wellFormed
     THEN /\ wikipediaBreeds' = parseBreedListWikitext(data.wikitext)
          /\ srcState' = [srcState EXCEPT !["A"] = "done"]
          /\ events' = Append(events, Event("ok", "A", 0, "done"))
          /\ UNCHANGED <<mainState, mainError>>
     ELSE /\ SourceReject("A", "TypeError")
          /\ UNCHANGED wikipediaBreeds
  /\ UNCHANGED <<pureVars, wikidataBreeds, resolveVars, outputPath, mainResult, writes>>

\* fetchWikidataBreedInfo after `await response.json()`
WikidataJsonOk(data) ==
  /\ srcState["B"] = "json"
  /\ LET parsed == parseWikidataResults(data.bindings)
     IN IF ~data.wellFormed
        THEN SourceReject("B", "TypeError") /\ UNCHANGED wikidataBreeds
        ELSE IF parsed.threw
        THEN SourceReject("B", "URIError") /\ UNCHANGED wikidataBreeds
        ELSE /\ wikidataBreeds' = parsed.value
             /\ srcState' = [srcState EXCEPT !["B"] = "done"]
             /\ events' = Append(events, Event("ok", "B", 0, "done"))
             /\ UNCHANGED <<mainState, mainError>>
  /\ UNCHANGED <<pureVars, wikipediaBreeds, resolveVars, outputPath, mainResult, writes>>

\* every batch request is issued twice
StartResolveReissued(ts) ==
  LET bs == batchesFrom(ts, 0)
      issues == [i \in 1..Len(bs) |-> Event("issue", "R", i, "fetch")]
  IN /\ titles' = ts
     /\ batches' = bs
     /\ batchState' = [i \in 1..Len(bs) |-> "fetch"]
     /\ batchResult' = [i \in 1..Len(bs) |-> <<>>]
     /\ resolveState' = "pending"
     /\ events' = events \o issues \o issues
     /\ UNCHANGED <<redirectMap, resolveError>>

\* resolveRedirects up to its await: the batches are built and every batch
\* request is issued
StartResolve(ts) ==
  LET bs == batchesFrom(ts, 0)
  IN /\ titles' = ts
     /\ batches' = bs
     /\ batchState' = [i \in 1..Len(bs) |-> "fetch"]
     /\ batchResult' = [i \in 1..Len(bs) |-> <<>>]
     /\ resolveState' = "pending"
     /\ events' = events \o [i \in 1..Len(bs) |-> Event("issue", "R", i, "fetch")]
     /\ UNCHANGED <<redirectMap, resolveError>>

\* main(): lines 287-288, after both sources are there
MainResolve ==
  /\ mainState = "awaitSources"
  /\ allDone(srcState)
  /\ mainState' = "awaitRedirects"
  /\ StartResolve(MapKeySeq(wikipediaBreeds))
  /\ UNCHANGED <<pureVars, srcVars, outputPath, mainResult, mainError, writes>>

\* resolveRedirects called on its own
CallResolveRedirects ==
  /\ call = "resolveRedirects"
  /\ resolveState = "idle"
  /\ StartResolve(args[1])
  /\ UNCHANGED <<pureVars, srcVars, mainVars>>

\* a batch call rejects: resolveRedirects rejects and main with it
BatchReject(i, what) ==
  LET err == Reason("R", i, what)
  IN /\ batchState' = [batchState EXCEPT ![i] = "failed"]
     /\ resolveState' = rejectedState(resolveState, "pending")
     /\ resolveError' = rejectionReason(resolveState, "pending", resolveError, err)
     /\ mainState' = rejectedState(mainState, "awaitRedirects")
     /\ mainError' = rejectionReason(mainState, "awaitRedirects", mainError, err)
     /\ events' = Append(events, Event("fail", "R", i, what))

BatchFetchOk(i) ==
  /\ batchState[i] = "fetch"
  /\ batchState' = [batchState EXCEPT ![i] = "json"]
  /\ UNCHANGED <<pureVars, srcVars, mainVars, events, resolveState, titles, batches,
                 batchResult, redirectMap, resolveError>>

BatchFetchFail(i) ==
  /\ batchState[i] = "fetch"
  /\ BatchReject(i, "fetch")
  /\ UNCHANGED <<pureVars, srcVars, outputPath, mainResult, writes, titles, batches,
                 batchResult, redirectMap>>

BatchJsonFail(i) ==
  /\ batchState[i] = "json"
  /\ BatchReject(i, "json")
  /\ UNCHANGED <<pureVars, srcVars, outputPath, mainResult, writes, titles, batches,
                 batchResult, redirectMap>>

\* resolveRedirectBatch after `await response.json()`
BatchJsonOk(i, data) ==
  /\ batchState[i] = "json"
  /\ LET res == resolveRedirectBatch(batches[i], data)
     IN IF res.threw
        THEN BatchReject(i, "TypeError") /\ UNCHANGED batchResult
        ELSE /\ batchState' = [batchState EXCEPT ![i] = "done"]
             /\ batchResult' = [batchResult EXCEPT ![i] = res.value]
             /\ events' = Append(events, Event("ok", "R", i, "done"))
             /\ UNCHANGED <<resolveState, resolveError, mainState, mainError>>
  /\ UNCHANGED <<pureVars, srcVars, outputPath, mainResult, writes, titles, batches,
                 redirectMap>>

\* resolveRedirects after `await Promise.all(...)`: lines 242-249
ResolveFinish ==
  /\ resolveState = "pending"
  /\ allDone(batchState)
  /\ redirectMap' = mergeBatchResults(batchResult)
  /\ resolveState' = "fulfilled"
  /\ UNCHANGED <<pureVars, srcVars, mainVars, events, titles, batches, batchState,
                 batchResult, resolveError>>

\* main(): lines 289-292; writeFunction returns or throws
MainMergeWrite(writeOk) ==
  /\ mainState = "awaitRedirects"
  /\ resolveState = "fulfilled"
  /\ LET breeds == mergeBreedData(wikipediaBreeds, wikidataBreeds, redirectMap)
     IN /\ writes' = writes \o writeCalls(outputPath, breeds)
        /\ IF writeOk
           THEN /\ mainState' = "fulfilled"
                /\ mainResult' = <<breeds>>
                /\ UNCHANGED mainError
           ELSE /\ mainState' = "rejected"
                /\ mainError' = <<Reason("write", 0, "throw")>>
                /\ UNCHANGED mainResult
  /\ events' = Append(events, Event("write", "main", 0, IF writeOk THEN "done" ELSE "throw"))
  /\ UNCHANGED <<pureVars, srcVars, resolveVars, outputPath>>

Init ==
  /\ call = "main"
  /\ args = <<>>
  /\ ret = <<>>
  /\ IdleRun

Next ==
  \/ \E path \in OutputPaths : MainStart(path)
  \/ \E s \in {"A", "B"} : SourceFetchOk(s)
  \/ \E s \in {"A", "B"} : SourceFetchFail(s)
  \/ \E s \in {"A", "B"} : SourceJsonFail(s)
  \/ \E data \in SourceAResponses : WikipediaJsonOk(data)
  \/ \E data \in SourceBResponses : WikidataJsonOk(data)
  \/ MainResolve
  \/ \E i \in DOMAIN batchState : BatchFetchOk(i)
  \/ \E i \in DOMAIN batchState : BatchFetchFail(i)
  \/ \E i \in DOMAIN batchState : BatchJsonFail(i)
  \/ \E i \in DOMAIN batchState : \E data \in RedirectResponses(batches[i]) : BatchJsonOk(i, data)
  \/ ResolveFinish
  \/ \E writeOk \in BOOLEAN : MainMergeWrite(writeOk)

Spec == Init /\ [][Next]_vars

InitResolve ==
  /\ call = "resolveRedirects"
  /\ args \in {<<GeneratedTitles(n)>> : n \in 0..MaxTitles}
  /\ ret = <<>>
  /\ IdleRun

NextResolve ==
  \/ CallResolveRedirects
  \/ \E i \in DOMAIN batchState : BatchFetchOk(i)
  \/ \E i \in DOMAIN batchState : BatchFetchFail(i)
  \/ \E i \in DOMAIN batchState : BatchJsonFail(i)
  \/ \E i \in DOMAIN batchState : \E data \in RedirectResponses(batches[i]) : BatchJsonOk(i, data)
  \/ ResolveFinish

SpecResolve == InitResolve /\ [][NextResolve]_vars

(***************************************************************************)
(* C6: for any input text that contains the boundary marker, wherever it   *)
(* is located (the very start of the text included),                       *)
(* parseBreedListWikitext returns no key whose list-item link occurs only  *)
(* after that marker.                                                      *)
(***************************************************************************)
\* titles of the list-item links of text that start before / at or after idx
LinkKeysBefore(text, idx) ==
  LET ms == matchAll(text) IN {trim(ms[n].g1) : n \in {k \in 1..Len(ms) : ms[k].start < idx}}
LinkKeysFrom(text, idx) ==
  LET ms == matchAll(text) IN {trim(ms[n].g1) : n \in {k \in 1..Len(ms) : ms[k].start >= idx}}

C6_ExtinctExcluded ==
  (call = "parseBreedListWikitext" /\ ret # <<>> /\ indexOf(args[1], ExtinctMarker) >= 0)
    => LET idx == indexOf(args[1], ExtinctMarker)
       IN \A k \in MapKeys(ret[1]) :
            ~(k \in LinkKeysFrom(args[1], idx) /\ k \notin LinkKeysBefore(args[1], idx))

(***************************************************************************)
(* Claims about mergeBreedData, under SpecMerge.                           *)
(***************************************************************************)
MergeReturned == call = "mergeBreedData" /\ ret # <<>>

\* the entry has neither a direct metadata match nor an alias match
Unmatched(entry, wdBreeds, aliases) ==
  /\ ~MapHas(wdBreeds, entry[1])
  /\ ~(MapHas(aliases, entry[1]) /\ MapHas(wdBreeds, MapGet(aliases, entry[1])))

\* the entry's key is absent from metadata and its alias is a key of metadata
AliasMatched(entry, wdBreeds, aliases) ==
  /\ ~MapHas(wdBreeds, entry[1])
  /\ MapHas(aliases, entry[1])
  /\ MapHas(wdBreeds, MapGet(aliases, entry[1]))

\* C3: mergeBreedData returns exactly one record per extracted entry (as many
\* records as entries, each entry's display name on its own record), and an
\* entry with neither a direct metadata match nor an alias match yields the
\* record {name: displayName, origin: "", imageURL: ""}.
C3_OneRecordPerEntry ==
  MergeReturned =>
    LET wp == args[1]
        out == ret[1]
    IN /\ Len(out) = Len(wp)
       /\ \E pi \in Permutations(1..Len(wp)) :
            \A i \in 1..Len(wp) :
              /\ out[pi[i]].name = wp[i][2]
              /\ Unmatched(wp[i], args[2], args[3])
                   => out[pi[i]] = [name |-> wp[i][2], origin |-> <<>>, imageURL |-> <<>>]

\* C3 witness: a merge of two or more entries, one matched and one unmatched
C3_Witness ==
  /\ MergeReturned
  /\ \E i, j \in 1..Len(args[1]) :
       /\ Unmatched(args[1][i], args[2], args[3])
       /\ MapHas(args[2], args[1][j][1])
  /\ Len(ret[1]) = Len(args[1])

\* C4: for every extracted key K absent from metadata while aliases[K] = K' is
\* a key of metadata, mergeBreedData returns K's record with origin and
\* imageURL taken from metadata[K'] and with name equal to the display name.
C4_AliasFallback ==
  MergeReturned =>
    LET wp == args[1]
        out == ret[1]
    IN /\ Len(out) = Len(wp)
       /\ \E pi \in Permutations(1..Len(wp)) :
            \A i \in 1..Len(wp) :
              /\ out[pi[i]].name = wp[i][2]
              /\ AliasMatched(wp[i], args[2], args[3])
                   => LET target == MapGet(args[2], MapGet(args[3], wp[i][1]))
                      IN /\ out[pi[i]].origin = target.origin
                         /\ out[pi[i]].imageURL = target.imageURL

\* C5: the sequence mergeBreedData returns is non-decreasing by name under the
\* comparison used for sorting, ties and mixed-case names included, and is a
\* permutation of the unsorted per-entry records.
CountOf(seq, x) == Cardinality({i \in 1..Len(seq) : seq[i] = x})

C5_SortedPermutation ==
  MergeReturned =>
    LET out == ret[1]
        unsorted == [n \in 1..Len(args[1]) |-> mergedRecord(args[1][n], args[2], args[3])]
    IN /\ \A i \in 1..(Len(out) - 1) : localeCompare(out[i].name, out[i + 1].name) <= 0
       /\ Len(out) = Len(unsorted)
       /\ \A i \in 1..Len(unsorted) : CountOf(out, unsorted[i]) = CountOf(unsorted, unsorted[i])

\* C5 witness: three entries given as "B", "a", "a": a tie and mixed case, and
\* the returned order differs from the given one
C5_Witness ==
  /\ MergeReturned
  /\ Len(args[1]) = 3
  /\ args[1][1][2] = <<"B">> /\ args[1][2][2] = <<"a">> /\ args[1][3][2] = <<"a">>
  /\ ret[1][1].name = <<"a">> /\ ret[1][3].name = <<"B">>

(***************************************************************************)
(* Claims about parseWikidataResults, under SpecWikidata.                  *)
(***************************************************************************)
\* C7: for every raw record, an image URL that begins with http:// comes out
\* with that prefix replaced by https:// and the remainder unchanged, and an
\* image URL that begins with https:// comes out unchanged, whatever the rest
\* of the URL contains.
C7_SchemeRewrite ==
  (call = "parseWikidataResults" /\ ret # <<>> /\ ~ret[1].threw) =>
    LET bindings == args[1]
        breeds == ret[1].value
    IN \A i \in 1..Len(bindings) :
         LET key == articleTitleOf(bindings[i])
             kept == \A j \in (i + 1)..Len(bindings) : articleTitleOf(bindings[j]) # key
         IN (kept /\ bindings[i].image # <<>>) =>
              LET u == bindings[i].image[1]
                  o == MapGet(breeds, key[1]).imageURL
              IN /\ startsWithAt(u, HttpPrefix, 0)
                      => o = HttpsPrefix \o slice(u, Len(HttpPrefix), Len(u))
                 /\ startsWithAt(u, HttpsPrefix, 0) => o = u

(***************************************************************************)
(* Claims about a run of main, under Spec.                                 *)
(***************************************************************************)
EventsWhere(ev, kinds) ==
  {i \in DOMAIN events : events[i].ev = ev /\ events[i].kind \in kinds}

\* C1: in any run of main in which a network call fails (a source fetch or an
\* alias chunk call), the run fails and the write capability is never
\* invoked, even if other concurrent calls succeeded.
C1_FailureNoWrite ==
  (call = "main" /\ EventsWhere("fail", {"A", "B", "R"}) # {})
    => /\ mainState = "rejected"
       /\ writes = <<>>
       /\ mainResult = <<>>

\* C1 witness: one chunk call has failed and another has succeeded
C1_Witness ==
  /\ call = "main"
  /\ EventsWhere("fail", {"R"}) # {}
  /\ EventsWhere("ok", {"R"}) # {}
  /\ mainState = "rejected"
  /\ writes = <<>>

\* C2: in every run of main that completes successfully the write capability
\* is invoked exactly once, as the last step after both source fetches, every
\* alias chunk call and the merge have completed, with the given output target
\* and the serialization of exactly the record sequence main returns; it is
\* never invoked more than once.
C2_WriteOnceLast ==
  call = "main" =>
    /\ Len(writes) <= 1
    /\ writes # <<>> =>
         /\ \A s \in {"A", "B"} : srcState[s] = "done"
         /\ \A i \in DOMAIN batchState : batchState[i] = "done"
         /\ resolveState = "fulfilled"
         /\ events[Len(events)].ev = "write"
    /\ mainState = "fulfilled" =>
         /\ mainResult # <<>>
         /\ mainResult[1] = mergeBreedData(wikipediaBreeds, wikidataBreeds, redirectMap)
         /\ writes = << [path |-> outputPath,
                         data |-> JSONStringify(mainResult[1]) \o <<"\n">>] >>

\* C2 witness: a successful run over two chunks that wrote more than 50 records
C2_Witness ==
  /\ call = "main"
  /\ mainState = "fulfilled"
  /\ Len(batches) = 2
  /\ Len(writes) = 1
  /\ Len(mainResult[1]) > 50

\* C9: no alias-resolution request is issued before both source fetches have
\* completed successfully, and the two source fetches are both issued before
\* either has completed.
C9_SourcesBeforeAliases ==
  call = "main" =>
    /\ \A i \in EventsWhere("issue", {"R"}) :
         /\ \E j \in EventsWhere("ok", {"A"}) : j < i
         /\ \E j \in EventsWhere("ok", {"B"}) : j < i
    /\ \A i \in EventsWhere("ok", {"A", "B"}) \cup EventsWhere("fail", {"A", "B"}) :
         /\ \E j \in EventsWhere("issue", {"A"}) : j < i
         /\ \E j \in EventsWhere("issue", {"B"}) : j < i
    /\ (\E s \in {"A", "B"} : srcState[s] # "idle") => (\A s \in {"A", "B"} : srcState[s] # "idle")

\* C9 witness: alias requests have been issued
C9_Witness ==
  /\ call = "main"
  /\ Cardinality(EventsWhere("issue", {"R"})) = 2
  /\ EventsWhere("ok", {"A"}) # {} /\ EventsWhere("ok", {"B"}) # {}

\* C10: if either source fetch fails, the run of main fails with the failure
\* of the branch that failed first, unmodified, and no alias-resolution
\* request is issued in that run.
C10_FirstSourceFailure ==
  LET fails == EventsWhere("fail", {"A", "B"})
  IN (call = "main" /\ fails # {}) =>
       LET first == events[Min(fails)]
       IN /\ mainState = "rejected"
          /\ mainError = << [kind |-> first.kind, idx |-> first.idx, what |-> first.what] >>
          /\ EventsWhere("issue", {"R"}) = {}

\* C10 witness: both sources failed, B first, and main carries B's failure
C10_Witness ==
  /\ call = "main"
  /\ Cardinality(EventsWhere("fail", {"A", "B"})) = 2
  /\ events[Min(EventsWhere("fail", {"A", "B"}))].kind = "B"
  /\ mainError # <<>> /\ mainError[1].kind = "B"

(***************************************************************************)
(* Claims about resolveRedirects, under SpecResolve.                       *)
(***************************************************************************)
\* C8: for a list of n titles resolveRedirects issues exactly ceil(n/50) batch
\* calls, over consecutive chunks whose concatenation is the input list, every
\* chunk of at most 50 titles and every chunk but the last of exactly 50; for
\* 0 titles it issues 0 calls and returns an empty map.
C8_BatchBoundary ==
  call = "resolveRedirects" =>
    LET n == Len(args[1])
        issued == EventsWhere("issue", {"R"})
    IN /\ resolveState = "idle" => issued = {}
       /\ resolveState # "idle" =>
            /\ Len(batches) = (n + 49) \div 50
            /\ Cardinality(issued) = Len(batches)
            /\ {events[i].idx : i \in issued} = 1..Len(batches)
            /\ Concat(batches) = args[1]
            /\ \A i \in 1..Len(batches) :
                 /\ Len(batches[i]) <= 50
                 /\ i < Len(batches) => Len(batches[i]) = 50
            /\ n = 0 => /\ events = <<>>
                        /\ resolveState \in {"pending", "fulfilled"}
                        /\ redirectMap = <<>>

\* C8 witness: 101 titles resolved in chunks of 50, 50 and 1
C8_Witness ==
  /\ call = "resolveRedirects"
  /\ Len(args[1]) = 101
  /\ resolveState = "fulfilled"
  /\ Len(batches) = 3
  /\ Len(batches[1]) = 50 /\ Len(batches[2]) = 50 /\ Len(batches[3]) = 1
  /\ Cardinality(EventsWhere("issue", {"R"})) = 3

\* the map has no entry whose value is its key
NoIdentityEntry(m) == \A i \in 1..Len(m) : m[i][2] # m[i][1]

EmptyQuery == [hasQuery |-> TRUE, normalized |-> <<>>, redirects |-> <<>>]

\* C11: every entry (k, v) of the map returned by resolveRedirectBatch and of
\* the merged map returned by resolveRedirects has v different from k, and a
\* response with no normalizations and no redirects yields an empty map.
C11_NoIdentityAlias ==
  /\ [](call = "resolveRedirects" =>
          /\ \A i \in DOMAIN batchResult : NoIdentityEntry(batchResult[i])
          /\ NoIdentityEntry(redirectMap))
  /\ [][\A i \in DOMAIN batchState :
          BatchJsonOk(i, EmptyQuery) => batchResult'[i] = <<>>]_vars

\* C11 witness: a merged map with aliases, one batch of the run having
\* resolved to nothing
C11_Witness ==
  /\ call = "resolveRedirects"
  /\ resolveState = "fulfilled"
  /\ Len(redirectMap) >= 2
  /\ \E i \in DOMAIN batchResult : batchResult[i] = <<>>

(***************************************************************************)
(* Claims about resolveRedirectBatch, under SpecBatch.                     *)
(***************************************************************************)
\* the targets a response lists for x, x itself when it lists none
TargetsIn(optList, x) ==
  LET list == IF optList = <<>> THEN <<>> ELSE optList[1]
      listed == {list[i][2] : i \in {j \in 1..Len(list) : list[j][1] = x}}
  IN IF listed = {} THEN {x} ELSE listed

\* C12: for every title t of a batch resolveRedirectBatch resolves t to
\* R(N(t)): the redirect lookup is applied to the normalization result, each
\* step at most once, and a title with a redirect and no normalization is
\* redirected; t is recorded exactly when that form differs from t.
C12_NormalizeThenRedirect ==
  (call = "resolveRedirectBatch" /\ ret # <<>> /\ args[2].hasQuery) =>
    LET batch == args[1]
        result == ret[1].value
        resolvedOf(t) == IF MapHas(result, t) THEN MapGet(result, t) ELSE t
        expected(t) ==
          UNION {TargetsIn(args[2].redirects, x) : x \in TargetsIn(args[2].normalized, t)}
    IN /\ ~ret[1].threw
       /\ MapKeys(result) \subseteq {batch[i] : i \in 1..Len(batch)}
       /\ \A i \in 1..Len(batch) : resolvedOf(batch[i]) \in expected(batch[i])

\* C12 witness: a is normalized to b and b redirects to a third title, which
\* itself has a redirect that is not followed; c has a redirect only
C12_Witness ==
  /\ call = "resolveRedirectBatch" /\ ret # <<>>
  /\ args[1] = << <<"b">>, <<"a">>, <<"c">> >>
  /\ args[2].normalized = << << << <<"a">>, <<"b">> >> >> >>
  /\ args[2].redirects = << << << <<"b">>, <<"c">> >>, << <<"c">>, <<"a">> >> >> >>
  /\ ret[1].value = << << <<"b">>, <<"c">> >>, << <<"a">>, <<"c">> >>, << <<"c">>, <<"a">> >> >>

(***************************************************************************)
(* Claims about parseBreedListWikitext, under SpecParse.                   *)
(***************************************************************************)
ParseReturned == call = "parseBreedListWikitext" /\ ret # <<>>

\* the title and the display name a link match stands for
LinkTitle(m) == trim(m.g1)
LinkDisplay(m) == trim(IF m.g2 # <<>> THEN m.g2[1] ELSE m.g1)

\* the links of the text the function scans
ScannedLinks == matchAll(extantTextOf(args[1]))

\* C13: parseBreedListWikitext returns a map with one entry per distinct
\* trimmed article title, whose value is the display name of that title's
\* first occurrence; later links with the same title never change or add an
\* entry.
C13_FirstOccurrenceWins ==
  ParseReturned =>
    LET links == ScannedLinks
        result == ret[1]
        firstOf(k) == Min({i \in 1..Len(links) : LinkTitle(links[i]) = k})
    IN /\ DistinctKeys(result)
       /\ MapKeys(result) = {LinkTitle(links[i]) : i \in 1..Len(links)}
       /\ \A k \in MapKeys(result) : MapGet(result, k) = LinkDisplay(links[firstOf(k)])

\* C13 witness: the title A occurs twice, first bare and then piped
C13_Witness ==
  /\ ParseReturned
  /\ args[1] = <<"*", " ", "[", "[", "A", "]", "]", "\n",
                 "*", "[", "[", "A", " ", "|", "c", " ", "]", "]">>
  /\ ret[1] = << << <<"A">>, <<"A">> >> >>

\* the text before the boundary marker, the whole text when there is none
InScopeText(wikitext) ==
  LET idx == indexOf(wikitext, ExtinctMarker)
  IN IF idx >= 0 THEN slice(wikitext, 0, idx) ELSE wikitext

\* C14 as stated: every list-item link of the in-scope text has its entry in
\* the result, {X, X} for a bare link and {X, Y} for a piped one, trimmed.
C14_EveryLinkYieldsEntry ==
  ParseReturned =>
    LET links == matchAll(InScopeText(args[1]))
    IN \A i \in 1..Len(links) :
         /\ MapHas(ret[1], LinkTitle(links[i]))
         /\ MapGet(ret[1], LinkTitle(links[i])) = LinkDisplay(links[i])

\* C14 amended: every list-item link of the in-scope text whose trimmed title
\* does not occur in an earlier link has its entry in the result, {X, X} for
\* a bare link and {X, Y} for a piped one, key and value trimmed.
C14_FirstLinkYieldsEntry ==
  ParseReturned =>
    LET links == matchAll(InScopeText(args[1]))
    IN \A i \in 1..Len(links) :
         (\A j \in 1..(i - 1) : LinkTitle(links[j]) # LinkTitle(links[i]))
           => /\ MapHas(ret[1], LinkTitle(links[i]))
              /\ MapGet(ret[1], LinkTitle(links[i])) =
                   (IF links[i].g2 = <<>> THEN trim(links[i].g1) ELSE trim(links[i].g2[1]))

\* C14 witness: a piped link with spaces around its parts and a bare link
C14_Witness ==
  /\ ParseReturned
  /\ args[1] = <<"*", "[", "[", "A", " ", "|", "c", " ", "]", "]",
                 "*", "[", "[", "b", " ", "|", "B", "]", "]",
                 "*", " ", "[", "[", "A", "]", "]", "\n">>
  /\ ret[1] = << << <<"A">>, <<"c">> >>, << <<"b">>, <<"B">> >> >>

(***************************************************************************)
(* Claims about the parsers followed by the merge, under SpecPipeline.     *)
(***************************************************************************)
PipelineReturned == call = "parseAndMerge" /\ ret # <<>>

IsString(x) == x \in Seq(STRING)

FieldsInOrder(rec) ==
  LET json == JSONStringify(<<rec>>)
      at(key) == indexOf(json, <<"\"">> \o key \o <<"\"", ":">>)
      n == at(<<"n", "a", "m", "e">>)
      o == at(<<"o", "r", "i", "g", "i", "n">>)
      u == at(<<"i", "m", "a", "g", "e", "U", "R", "L">>)
  IN 0 <= n /\ n < o /\ o < u

\* C15: every record returned by mergeBreedData over metadata produced by
\* parseWikidataResults has exactly the fields name, origin and imageURL, in
\* that order, each a string; a raw record without origin or without image
\* gives the empty string, never a placeholder for the absent value.
C15_ThreeStringFields ==
  PipelineReturned =>
    LET raw == args[2]
        origins == {raw[i].origins[1] : i \in {j \in 1..Len(raw) : raw[j].origins # <<>>}}
        images == {imageURLOf(raw[i]) : i \in {j \in 1..Len(raw) : raw[j].image # <<>>}}
    IN \A n \in 1..Len(ret[1]) :
         LET rec == ret[1][n]
         IN /\ DOMAIN rec = {"name", "origin", "imageURL"}
            /\ IsString(rec.name) /\ IsString(rec.origin) /\ IsString(rec.imageURL)
            /\ FieldsInOrder(rec)
            /\ rec.origin \in origins \cup {<<>>}
            /\ rec.imageURL \in images \cup {<<>>}

\* C15 witness: the entry is matched by a raw record with neither origin nor image
C15_Witness ==
  /\ PipelineReturned
  /\ args[1] = <<"*", " ", "[", "[", "A", " ", "b", "]", "]">>
  /\ args[2] = << [article |-> <<"e">> \o WikiPrefix \o <<"A", "_", "b">>,
                   breedLabel |-> <<"L">>, origins |-> <<>>, image |-> <<>>] >>
  /\ ret[1] = << [name |-> <<"A", " ", "b">>, origin |-> <<>>, imageURL |-> <<>>] >>

\* C16: every record produced by parseBreedListWikitext followed by
\* mergeBreedData has a non-empty name, for every input text.
C16_NameNonEmpty ==
  PipelineReturned => \A n \in 1..Len(ret[1]) : ret[1][n].name # <<>>

\* C17: when the text does not contain the boundary marker,
\* parseBreedListWikitext processes the entire text: every list-item link
\* anywhere in it contributes its key.
C17_NoMarkerWholeText ==
  (ParseReturned /\ indexOf(args[1], ExtinctMarker) < 0) =>
    LET links == matchAll(args[1])
    IN MapKeys(ret[1]) = {trim(links[i].g1) : i \in 1..Len(links)}

\* C17 witness: a text without marker whose last characters close a link
C17_Witness ==
  /\ ParseReturned
  /\ indexOf(args[1], ExtinctMarker) < 0
  /\ args[1] = <<"*", " ", "[", "[", "A", "]", "]", "\n",
                 "*", " ", "[", "[", " ", "]", "]",
                 "*", "[", "[", "b", " ", "|", "B", "]", "]">>
  /\ MapKeys(ret[1]) = {<<"A">>, <<>>, <<"b">>}

(***************************************************************************)
(* Claims about a run of main over a list text without links, under Spec.  *)
(***************************************************************************)
\* both sources were read and the list text had no link
NoLinkRun ==
  /\ call = "main"
  /\ \A s \in {"A", "B"} : srcState[s] = "done"
  /\ wikipediaBreeds = <<>>

EmptyArrayText == <<"[", "]", "\n">>

\* C18: when the source-A text contains no recognizable list-item link and
\* both source fetches succeed, the run of main completes without failure:
\* no alias-resolution request is issued, nothing fails, the run is never
\* left waiting (its next continuation can always run, up to the write), an
\* empty array is written once and an empty sequence is returned; main fails
\* only if the write itself throws.
C18_NoLinksCompletes ==
  NoLinkRun =>
    /\ EventsWhere("issue", {"R"}) = {}
    /\ EventsWhere("fail", {"A", "B", "R"}) = {}
    /\ mainState \in {"awaitSources", "awaitRedirects", "fulfilled", "rejected"}
    /\ mainState = "awaitSources" => ENABLED MainResolve
    /\ mainState = "awaitRedirects" =>
         \/ resolveState = "pending" /\ ENABLED ResolveFinish
         \/ resolveState = "fulfilled" /\ ENABLED MainMergeWrite(TRUE)
    /\ Len(writes) <= 1
    /\ \A i \in 1..Len(writes) : writes[i] = [path |-> outputPath, data |-> EmptyArrayText]
    /\ mainState = "fulfilled" => (Len(writes) = 1 /\ mainResult = << <<>> >>)
    /\ mainState = "rejected" =>
         (Len(writes) = 1 /\ events[Len(events)] = Event("write", "main", 0, "throw"))

\* C18 witness: the run over a text without links has completed, with metadata
C18_Witness ==
  /\ NoLinkRun
  /\ wikidataBreeds # <<>>
  /\ mainState = "fulfilled"
  /\ mainResult = << <<>> >>
  /\ writes = << [path |-> outputPath, data |-> EmptyArrayText] >>

(***************************************************************************)
(* Claims about parseWikidataResults, under SpecWikidata.                  *)
(***************************************************************************)
\* the part of the URL after its first /wiki/
AfterWiki(url) == slice(url, indexOf(url, WikiPrefix) + Len(WikiPrefix), Len(url))

\* that part percent-decoded, then every underscore replaced by a space
DerivedKey(url) == replaceAllChar(decodeURIComponent(AfterWiki(url))[1], "_", " ")

\* every article URL has a /wiki/ part that can be decoded
KeysDerivable(bindings) ==
  \A i \in 1..Len(bindings) :
    /\ indexOf(bindings[i].article, WikiPrefix) >= 0
    /\ decodeURIComponent(AfterWiki(bindings[i].article)) # <<>>

Issued == {i \in DOMAIN events : events[i].ev = "issue"}

\* C21: in any run of main every network request is issued at most once and
\* never re-issued after a failure: the number of fetch invocations never
\* exceeds 2 + ceil(n/50), n the number of extracted keys, and equals it in a
\* successful run.
C21_NoRetry ==
  call = "main" =>
    LET n == Len(wikipediaBreeds)
        most == 2 + (n + 49) \div 50
    IN /\ \A i, j \in Issued :
            (events[i].kind = events[j].kind /\ events[i].idx = events[j].idx) => i = j
       /\ \A f \in EventsWhere("fail", {"A", "B", "R"}) :
            \A i \in Issued :
              (events[i].kind = events[f].kind /\ events[i].idx = events[f].idx) => i < f
       /\ Cardinality(Issued) <= most
       /\ mainState = "fulfilled" => Cardinality(Issued) = most

\* C21 witness: a successful run over 51 keys has made 4 fetch invocations
C21_Witness ==
  /\ call = "main"
  /\ mainState = "fulfilled"
  /\ Len(wikipediaBreeds) = 51
  /\ Cardinality(Issued) = 4

\* a network call that was issued and has not completed
PendingCall ==
  \/ \E s \in {"A", "B"} : srcState[s] \in {"fetch", "json"}
  \/ \E i \in DOMAIN batchState : batchState[i] \in {"fetch", "json"}

\* C22 as stated: while a network call of the run has not completed, main has
\* neither returned nor failed and the write capability has not been invoked,
\* whatever the other concurrent calls do.
C22_PendingCallHangsRun ==
  (call = "main" /\ PendingCall) =>
    /\ mainState \notin {"fulfilled", "rejected"}
    /\ writes = <<>>

\* C22 amended: while a network call of the run has not completed, main has
\* not returned and the write capability has not been invoked; main has not
\* failed either unless another concurrent call has failed, and then it has
\* failed with the first such failure.
C22_PendingCallBlocksSuccess ==
  (call = "main" /\ PendingCall) =>
    LET fails == EventsWhere("fail", {"A", "B", "R"})
    IN /\ mainState # "fulfilled"
       /\ mainResult = <<>>
       /\ writes = <<>>
       /\ fails = {} => mainState \in {"awaitSources", "awaitRedirects"}
       /\ mainState = "rejected" =>
            (fails # {} /\ mainError = << [kind |-> events[Min(fails)].kind,
                                           idx |-> events[Min(fails)].idx,
                                           what |-> events[Min(fails)].what] >>)

\* C22 witness: one chunk call is pending, the other has completed, and main
\* is still waiting
C22_Witness ==
  /\ call = "main"
  /\ Len(batchState) = 2
  /\ batchState[1] \in {"fetch", "json"}
  /\ batchState[2] = "done"
  /\ mainState = "awaitRedirects"
  /\ writes = <<>>

(***************************************************************************)
(* Claims about the concurrent chunk calls of resolveRedirects, under      *)
(* SpecResolve (its titles are distinct).                                  *)
(***************************************************************************)
\* a Map as a set of entries
EntriesOf(map) == {map[i] : i \in 1..Len(map)}

\* C23: for a list of distinct titles the map returned by resolveRedirects
\* does not depend on the order in which the chunk calls complete: it is the
\* union of the per-chunk result maps, in chunk order, whose key sets are
\* pairwise disjoint, and it is built only after all chunk calls completed.
C23_MergeOrderIndependent ==
  call = "resolveRedirects" =>
    /\ \A i, j \in DOMAIN batchResult :
         i # j => MapKeys(batchResult[i]) \cap MapKeys(batchResult[j]) = {}
    /\ \A i \in DOMAIN batchResult :
         MapKeys(batchResult[i]) \subseteq {batches[i][k] : k \in 1..Len(batches[i])}
    /\ (\E i \in DOMAIN batchState : batchState[i] # "done") =>
         (resolveState # "fulfilled" /\ redirectMap = <<>>)
    /\ resolveState = "fulfilled" =>
         /\ redirectMap = Concat(batchResult)
         /\ EntriesOf(redirectMap) = UNION {EntriesOf(batchResult[i]) : i \in DOMAIN batchResult}
         /\ DistinctKeys(redirectMap)

\* C23 witness: three chunks, the second completed before the first, each
\* with an alias
C23_Witness ==
  /\ call = "resolveRedirects"
  /\ resolveState = "fulfilled"
  /\ Len(batches) = 3
  /\ \E i, j \in DOMAIN events :
       /\ i < j
       /\ events[i] = Event("ok", "R", 2, "done")
       /\ events[j] = Event("ok", "R", 1, "done")
  /\ Len(redirectMap) = 3

(***************************************************************************)
(* Claims about findInWikidata, under SpecFind.                            *)
(***************************************************************************)
\* C24: the direct lookup has precedence and the alias is followed exactly
\* one hop: when the key is a key of metadata that entry is the result, also
\* when aliases[key] names another entry; when it is not, the result is
\* metadata[aliases[key]] if that exists (aliases of aliases are not
\* followed) and 'not found' otherwise.
C24_DirectThenOneHop ==
  (call = "findInWikidata" /\ ret # <<>>) =>
    LET key == args[1]
        metadata == args[2]
        aliases == args[3]
    IN ret[1] =
         IF MapHas(metadata, key) THEN <<MapGet(metadata, key)>>
         ELSE IF MapHas(aliases, key) /\ MapHas(metadata, MapGet(aliases, key))
              THEN <<MapGet(metadata, MapGet(aliases, key))>>
         ELSE <<>>

====
